---------------------------- MODULE Spec2Model ----------------------------
(* Model of the blog's utility layer: path helpers (src/utils/path.ts),   *)
(* post queries and reading time (src/utils/posts.ts) and the feed and    *)
(* llms.txt endpoints built on them (src/pages).                          *)
(* Strings are sequences of one-character strings.                        *)
EXTENDS Integers, Sequences, FiniteSets, TLC

VARIABLES
    currentPath, targetPath, active, activeDone,   \* one call of isPathActive
    path, options, url, urlDone,                   \* one call of formatUrl
    content, minutes, minutesDone,                 \* one call of estimateReadingTime
    collection,                                    \* the "blog" content collection
    rssPc, rssItems, rssLog, fetches,              \* GET /rss.xml
    llmsItems, llmsFullItems, staticPaths,         \* llms.txt, llms-full.txt, /llms/[slug].txt
    served,                                        \* the endpoints that have produced their output
    rb, rbCall, rbError, rbBuilt,                  \* a RouteBuilder and the last call made on it
    routeCall, routeValue, routeThrew, routeDone,  \* one call of a BlogRoutes function
    docCall, docItems, docText, docDone            \* one call of an llms.ts document generator

pathActiveVars == <<currentPath, targetPath, active, activeDone>>
formatVars     == <<path, options, url, urlDone>>
readingVars    == <<content, minutes, minutesDone>>
pageVars       == <<collection, rssPc, rssItems, rssLog, fetches,
                    llmsItems, llmsFullItems, staticPaths, served>>
builderVars    == <<rb, rbCall, rbError, rbBuilt>>
routesVars     == <<routeCall, routeValue, routeThrew, routeDone>>
docVars        == <<docCall, docItems, docText, docDone>>
vars == <<pathActiveVars, formatVars, readingVars, pageVars,
          builderVars, routesVars, docVars>>

-----------------------------------------------------------------------------
(* Bounds of the explored inputs *)

MaxLen == 4        \* longest path string
MaxPrefix == 3     \* longest free-form beginning of a content string
MaxWords == 202    \* words appended to a content string
MaxPosts == 3      \* entries in the collection
MaxDate == 2       \* publication dates are 1..MaxDate
MaxFetches == 2    \* analytics requests in flight or settled
MaxSegLen == 3     \* longest argument of a route call
MaxSegments == 2   \* segments added to one RouteBuilder
MaxItems == 2      \* posts handed to one llms document

Chars == {"/", "a", "b"}
Slash == "/"

Strings(n) == UNION {[1..k -> Chars] : k \in 0..n}

-----------------------------------------------------------------------------
(* JavaScript string primitives used by path.ts *)

endsWith(s, c) == Len(s) > 0 /\ s[Len(s)] = c

startsWith(s, t) == Len(t) <= Len(s) /\ SubSeq(s, 1, Len(t)) = t

RECURSIVE DropLeadingSlashes(_)
DropLeadingSlashes(s) ==
    IF Len(s) > 0 /\ s[1] = Slash THEN DropLeadingSlashes(Tail(s)) ELSE s

RECURSIVE DropTrailingSlashes(_)
DropTrailingSlashes(s) ==
    IF endsWith(s, Slash) THEN DropTrailingSlashes(SubSeq(s, 1, Len(s) - 1)) ELSE s

-----------------------------------------------------------------------------
(* src/utils/path.ts *)

OptionKeys == {"trailingSlash", "leadingSlash"}
OptionValues == {"true", "false", "undefined"}
Truthy(v) == v = "true"

DEFAULT_FORMAT_OPTIONS == [trailingSlash |-> "true", leadingSlash |-> "true"]

\* path.replace(/^\/+|\/+$/g, ""): the leading run is matched first, then
\* the run that reaches the end of what is left
stripSlashes_LeadingOnly(p) == DropLeadingSlashes(p)
stripSlashes(p) == DropTrailingSlashes(DropLeadingSlashes(p))

removeTrailingSlash_Identity(p) == p
removeTrailingSlash(p) ==
    IF endsWith(p, Slash) /\ p # <<Slash>> THEN SubSeq(p, 1, Len(p) - 1) ELSE p

\* { ...DEFAULT_FORMAT_OPTIONS, ...options }: every key present in options
\* wins, whatever its value
MergeOptions(o) ==
    [k \in OptionKeys |-> IF k \in DOMAIN o THEN o[k] ELSE DEFAULT_FORMAT_OPTIONS[k]]

formatUrl(p, o) ==
    LET merged == MergeOptions(o)
        cleanPath == stripSlashes(p)
        url1 == IF Truthy(merged["leadingSlash"]) THEN <<Slash>> \o cleanPath ELSE cleanPath
        url2 == IF Truthy(merged["trailingSlash"]) THEN url1 \o <<Slash>> ELSE url1
    IN url2

isPathActive_NoRootCase(cur, tgt) ==
    LET normalizedCurrent == removeTrailingSlash(cur)
        normalizedTarget == removeTrailingSlash(tgt)
    IN normalizedCurrent = normalizedTarget \/ startsWith(normalizedCurrent, normalizedTarget)

isPathActive(cur, tgt) ==
    IF tgt = <<Slash>> /\ cur # <<Slash>>
    THEN FALSE
    ELSE LET normalizedCurrent == removeTrailingSlash(cur)
             normalizedTarget == removeTrailingSlash(tgt)
         IN normalizedCurrent = normalizedTarget
            \/ (normalizedTarget # <<Slash>> /\ startsWith(normalizedCurrent, normalizedTarget))

-----------------------------------------------------------------------------
(* src/utils/posts.ts: reading time *)

WORDS_PER_MINUTE == 200

ContentChars == {"w", " ", "\n"}
Whitespace == {" ", "\n"}

ContentStrings(n) == UNION {[1..k -> ContentChars] : k \in 0..n}

SetMin(S) == CHOOSE x \in S : \A y \in S : x <= y
SetMax(S) == CHOOSE x \in S : \A y \in S : x >= y

\* String.prototype.trim
trim(s) ==
    LET solid == {i \in 1..Len(s) : s[i] \notin Whitespace}
    IN IF solid = {} THEN <<>> ELSE SubSeq(s, SetMin(solid), SetMax(solid))

\* s.split(/\s+/).length: one piece more than there are maximal runs of
\* whitespace; the empty string splits into the single piece ""
splitLength(s) ==
    1 + Cardinality({i \in 1..Len(s) :
                        s[i] \in Whitespace /\ (i = 1 \/ s[i - 1] \notin Whitespace)})

countWords(text) == splitLength(trim(text))

\* Math.ceil(n / d) for n >= 0, d > 0
MathCeilDiv(n, d) == IF n % d = 0 THEN n \div d ELSE (n \div d) + 1

estimateReadingTime_Floor(c) == countWords(c) \div WORDS_PER_MINUTE
estimateReadingTime(c) == MathCeilDiv(countWords(c), WORDS_PER_MINUTE)

-----------------------------------------------------------------------------
(* src/utils/posts.ts: the post query *)

Slugs == {<<"a">>, <<"b">>, <<"a", "/", "b">>}
Dates == 1..MaxDate

Posts == [slug : Slugs, pubDate : Dates, draft : BOOLEAN]

\* the collections the content layer can hold: slugs are unique, so a
\* collection has no more entries than there are slugs
Collections ==
    {c \in UNION {[1..k -> Posts] : k \in 0..SetMin({MaxPosts, Cardinality(Slugs)})} :
        \A i, j \in 1..Len(c) : i # j => c[i].slug # c[j].slug}

sortByDateDescending_Ascending(a, b) == a.pubDate - b.pubDate
sortByDateDescending(a, b) == b.pubDate - a.pubDate

\* Array.prototype.sort(cmp): a stable sort. The element at index j ends
\* at the position counting the elements that compare before it and the
\* equal ones that stood before it
SortedPosition(s, j) ==
    1 + Cardinality({k \in 1..Len(s) :
                        \/ sortByDateDescending(s[k], s[j]) < 0
                        \/ (sortByDateDescending(s[k], s[j]) = 0 /\ k < j)})

ArraySort(s) ==
    [i \in 1..Len(s) |-> s[CHOOSE j \in 1..Len(s) : SortedPosition(s, j) = i]]

\* getCollection("blog") called without a filter: every entry
getCollection(c) == c

getAllPosts(c) == ArraySort(getCollection(c))

-----------------------------------------------------------------------------
(* The endpoints: src/pages/rss.xml.ts, llms.txt.ts, llms-full.txt.ts,    *)
(* llms/[slug].txt.ts and the item builders of src/utils/llms.ts.         *)
(* Titles, descriptions and categories are copied through unchanged and   *)
(* are left out; an entry is recognised by its link.                      *)

NoOptions == [k \in {} |-> "true"]      \* formatUrl(slug): options omitted

\* Array.prototype.map
Map(F(_), s) == [i \in 1..Len(s) |-> F(s[i])]

Reverse(s) == [i \in 1..Len(s) |-> s[Len(s) + 1 - i]]

formatLlmsUrl(slug) == <<"/", "l", "l", "m", "s", "/">> \o slug \o <<".", "t", "x", "t">>

RssItem(post) == [pubDate |-> post.pubDate, link |-> formatUrl(post.slug, NoOptions)]

rssItemsOf_Reversed(posts) == Reverse(Map(RssItem, posts))
rssItemsOf(posts) == Map(RssItem, posts)

\* the fields of post.data among keys that the post carries
DataOf(post, keys) == [f \in DOMAIN post \cap keys |-> post[f]]

LlmsItem(post) ==
    [link |-> formatLlmsUrl(post.slug)] @@ DataOf(post, {"title", "description"})
postsToLlmsItems(posts) == Map(LlmsItem, posts)

Undefined == <<"u", "n", "d", "e", "f", "i", "n", "e", "d">>

\* post.body ?? "": a post without a body has no body field
BodyOrEmpty_Undefined(post) == IF "body" \in DOMAIN post THEN post.body ELSE Undefined
BodyOrEmpty(post) == IF "body" \in DOMAIN post THEN post.body ELSE <<>>

LlmsFullItem(post) ==
    [link |-> formatUrl(post.slug, NoOptions), pubDate |-> post.pubDate,
     body |-> BodyOrEmpty(post)]
    @@ DataOf(post, {"title", "description", "category"})
postsToLlmsFullItems(posts) == Map(LlmsFullItem, posts)

StaticPath(post) == [params |-> [slug |-> post.slug], props |-> [post |-> post]]

RssGET_TrackBeforeSiteCheck(site) ==
    /\ rssPc \in {"idle", "done", "threw"}
    /\ Len(fetches) < MaxFetches
    /\ fetches' = Append(fetches, [name |-> "rss-fetch", state |-> "pending"])
    /\ rssLog' = <<"track">>
    /\ rssPc' = IF ~site THEN "threw" ELSE "awaitPosts"
    /\ UNCHANGED <<collection, rssItems, llmsItems, llmsFullItems, staticPaths, served>>

\* GET /rss.xml up to the await: the site check, then trackRssRequest,
\* whose fetch is started and not awaited
RssGET(site) ==
    /\ rssPc \in {"idle", "done", "threw"}
    /\ Len(fetches) < MaxFetches
    /\ IF ~site
       THEN /\ rssPc' = "threw"
            /\ rssLog' = <<>>
            /\ UNCHANGED fetches
       ELSE /\ fetches' = Append(fetches, [name |-> "rss-fetch", state |-> "pending"])
            /\ rssLog' = <<"track">>
            /\ rssPc' = "awaitPosts"
    /\ UNCHANGED <<collection, rssItems, llmsItems, llmsFullItems, staticPaths, served>>

\* GET /rss.xml after await getAllPosts(): the items handed to rss()
RssGETResume ==
    /\ rssPc = "awaitPosts"
    /\ rssLog' = Append(rssLog, "read")
    /\ rssItems' = rssItemsOf(getAllPosts(collection))
    /\ rssPc' = "done"
    /\ served' = served \cup {"rss"}
    /\ UNCHANGED <<collection, fetches, llmsItems, llmsFullItems, staticPaths>>

\* the analytics request completes
FetchResolve(i) ==
    /\ i \in 1..Len(fetches)
    /\ fetches[i].state = "pending"
    /\ fetches' = [fetches EXCEPT ![i].state = "ok"]
    /\ UNCHANGED <<collection, rssPc, rssItems, rssLog, llmsItems, llmsFullItems, staticPaths, served>>

FetchReject_NoCatch(i) ==
    /\ i \in 1..Len(fetches)
    /\ fetches[i].state = "pending"
    /\ fetches' = [fetches EXCEPT ![i].state = "unhandled"]
    /\ UNCHANGED <<collection, rssPc, rssItems, rssLog, llmsItems, llmsFullItems, staticPaths, served>>

\* the analytics request fails; .catch() takes the rejection
FetchReject(i) ==
    /\ i \in 1..Len(fetches)
    /\ fetches[i].state = "pending"
    /\ fetches' = [fetches EXCEPT ![i].state = "caught"]
    /\ UNCHANGED <<collection, rssPc, rssItems, rssLog, llmsItems, llmsFullItems, staticPaths, served>>

\* GET /llms.txt
LlmsTxtGET ==
    /\ "llms" \notin served
    /\ served' = served \cup {"llms"}
    /\ llmsItems' = postsToLlmsItems(getAllPosts(collection))
    /\ UNCHANGED <<collection, rssPc, rssItems, rssLog, fetches, llmsFullItems, staticPaths>>

\* GET /llms-full.txt
LlmsFullTxtGET ==
    /\ "llmsFull" \notin served
    /\ served' = served \cup {"llmsFull"}
    /\ llmsFullItems' = postsToLlmsFullItems(getAllPosts(collection))
    /\ UNCHANGED <<collection, rssPc, rssItems, rssLog, fetches, llmsItems, staticPaths>>

\* getStaticPaths of /llms/[slug].txt
getStaticPaths ==
    /\ "staticPaths" \notin served
    /\ served' = served \cup {"staticPaths"}
    /\ staticPaths' = Map(StaticPath, getAllPosts(collection))
    /\ UNCHANGED <<collection, rssPc, rssItems, rssLog, fetches, llmsItems, llmsFullItems>>

-----------------------------------------------------------------------------
(* src/utils/analytics.ts: RouteBuilder and BlogRoutes *)

RouteChars == {"a", "/", " ", "%"}
RouteStrings(n) == UNION {[1..k -> RouteChars] : k \in 0..n}

LowerCase == {"a", "b", "c", "d", "e", "f", "g", "h", "i", "j", "k", "l", "m",
              "n", "o", "p", "q", "r", "s", "t", "u", "v", "w", "x", "y", "z"}

\* encodeURIComponent: letters (digits and - _ . ! ~ * ' ( ) too) stay,
\* every other character becomes the %XX of its UTF-8 bytes
PercentEncoded(c) ==
    CASE c = "/" -> <<"%", "2", "F">>
      [] c = " " -> <<"%", "2", "0">>
      [] c = "%" -> <<"%", "2", "5">>

RECURSIVE encodeURIComponent(_)
encodeURIComponent(s) ==
    IF s = <<>> THEN <<>>
    ELSE (IF Head(s) \in LowerCase THEN <<Head(s)>> ELSE PercentEncoded(Head(s)))
         \o encodeURIComponent(Tail(s))

\* s.replace(/\//g, "")
RemoveSlashes(s) == SelectSeq(s, LAMBDA c : c # Slash)

\* new RouteBuilder(base)
RouteBuilderNew(base) ==
    [base |-> IF base # <<>>
              THEN (IF startsWith(base, <<Slash>>) THEN base ELSE <<Slash>> \o base)
              ELSE <<>>,
     segments |-> <<>>]

ErrEmptySegment == "Segment cannot be empty"

\* RouteBuilder.segment: the error thrown ("none" on return) and the builder
\* as the call leaves it
RouteSegment_PushBeforeCheck(b, seg) ==
    [error |-> IF seg = <<>> THEN ErrEmptySegment ELSE "none",
     builder |-> [b EXCEPT !.segments = Append(@, encodeURIComponent(RemoveSlashes(seg)))]]

RouteSegment_KeepSlashes(b, seg) ==
    IF seg = <<>>
    THEN [error |-> ErrEmptySegment, builder |-> b]
    ELSE [error |-> "none",
          builder |-> [b EXCEPT !.segments = Append(@, encodeURIComponent(seg))]]

RouteSegment(b, seg) ==
    IF seg = <<>>
    THEN [error |-> ErrEmptySegment, builder |-> b]
    ELSE [error |-> "none",
          builder |-> [b EXCEPT !.segments =
                          Append(@, encodeURIComponent(RemoveSlashes(seg)))]]

\* parts.join("/")
RECURSIVE JoinWithSlash(_)
JoinWithSlash(parts) ==
    IF parts = <<>> THEN <<>>
    ELSE IF Len(parts) = 1 THEN parts[1]
    ELSE parts[1] \o <<Slash>> \o JoinWithSlash(Tail(parts))

\* RouteBuilder.build(trailingSlash)
RouteBuild(b, trailingSlash) ==
    LET parts == SelectSeq(<<b.base>> \o b.segments, LAMBDA part : Len(part) > 0)
        joined == JoinWithSlash(parts)
        finalPath == IF startsWith(joined, <<Slash>>) THEN joined ELSE <<Slash>> \o joined
    IN IF trailingSlash THEN finalPath \o <<Slash>> ELSE finalPath

Blog == <<"b", "l", "o", "g">>
Category == <<"c", "a", "t", "e", "g", "o", "r", "y">>
Tag == <<"t", "a", "g">>

\* a chain new RouteBuilder(base).segment(..)....build(): the first error
\* ends it
RECURSIVE RouteChain(_, _)
RouteChain(b, segs) ==
    IF segs = <<>>
    THEN [threw |-> FALSE, value |-> RouteBuild(b, TRUE)]
    ELSE LET r == RouteSegment(b, Head(segs))
         IN IF r.error # "none"
            THEN [threw |-> TRUE, value |-> <<>>]
            ELSE RouteChain(r.builder, Tail(segs))

BlogRoutes(fn, arg) ==
    CASE fn = "post"     -> RouteChain(RouteBuilderNew(Blog), <<arg>>)
      [] fn = "category" -> RouteChain(RouteBuilderNew(Blog), <<Category, arg>>)
      [] fn = "tag"      -> RouteChain(RouteBuilderNew(Blog), <<Tag, arg>>)
      [] fn = "index"    -> RouteChain(RouteBuilderNew(Blog), <<>>)

\* builder.segment(seg) on the builder at hand
RbSegment(seg) ==
    /\ Len(rb.segments) < MaxSegments
    /\ LET r == RouteSegment(rb, seg)
       IN /\ rb' = r.builder
          /\ rbError' = r.error
    /\ rbCall' = [op |-> "segment", arg |-> seg]
    /\ UNCHANGED rbBuilt

\* builder.build(trailingSlash)
RbBuild(trailingSlash) ==
    /\ rbBuilt' = RouteBuild(rb, trailingSlash)
    /\ rbCall' = [op |-> IF trailingSlash THEN "build" ELSE "buildBare", arg |-> <<>>]
    /\ rbError' = "none"
    /\ UNCHANGED rb

BlogRoutesPost ==
    /\ ~routeDone /\ routeCall.fn = "post"
    /\ routeValue' = BlogRoutes("post", routeCall.arg).value
    /\ routeThrew' = BlogRoutes("post", routeCall.arg).threw
    /\ routeDone' = TRUE
    /\ UNCHANGED routeCall

BlogRoutesCategory ==
    /\ ~routeDone /\ routeCall.fn = "category"
    /\ routeValue' = BlogRoutes("category", routeCall.arg).value
    /\ routeThrew' = BlogRoutes("category", routeCall.arg).threw
    /\ routeDone' = TRUE
    /\ UNCHANGED routeCall

BlogRoutesTag ==
    /\ ~routeDone /\ routeCall.fn = "tag"
    /\ routeValue' = BlogRoutes("tag", routeCall.arg).value
    /\ routeThrew' = BlogRoutes("tag", routeCall.arg).threw
    /\ routeDone' = TRUE
    /\ UNCHANGED routeCall

BlogRoutesIndex ==
    /\ ~routeDone /\ routeCall.fn = "index"
    /\ routeValue' = BlogRoutes("index", <<>>).value
    /\ routeThrew' = BlogRoutes("index", <<>>).threw
    /\ routeDone' = TRUE
    /\ UNCHANGED routeCall

-----------------------------------------------------------------------------
(* src/utils/llms.ts: the plain-text documents *)

NL == "\n"
UpperCase == {"A", "B", "C", "D", "E", "F", "G", "H", "I", "J", "K", "L", "M",
              "N", "O", "P", "Q", "R", "S", "T", "U", "V", "W", "X", "Y", "Z"}
Digits == <<"0", "1", "2", "3", "4", "5", "6", "7", "8", "9">>
Punctuation == {"<", ">", "/", "'", "\"", ";", "#", "-", ":", "[", "]", "(", ")", "."}

\* the characters of the texts
TextChars ==
    LowerCase \cup UpperCase \cup {Digits[i] : i \in 1..10} \cup Whitespace \cup Punctuation

\* a regular expression is a sequence of atoms: a line anchor, or a class of
\* characters repeated min..max times (max = Unbounded: no limit), greedily
\* or lazily
Unbounded == -1
Atom(class, min, max, lazy) ==
    [anchor |-> "none", class |-> class, min |-> min, max |-> max, lazy |-> lazy]
One(class) == Atom(class, 1, 1, FALSE)
Opt(class) == Atom(class, 0, 1, FALSE)
Star(class) == Atom(class, 0, Unbounded, FALSE)
Plus(class) == Atom(class, 1, Unbounded, FALSE)
LazyStar(class) == Atom(class, 0, Unbounded, TRUE)
LineStart == [anchor |-> "^", class |-> {}, min |-> 0, max |-> 0, lazy |-> FALSE]
LineEnd == [anchor |-> "$", class |-> {}, min |-> 0, max |-> 0, lazy |-> FALSE]
Literal(str) == [i \in 1..Len(str) |-> One({str[i]})]

AnyButNewline == TextChars \ {NL}         \* .
Letters == LowerCase \cup UpperCase       \* [a-zA-Z]
Quotes == {"'", "\""}                     \* ['"]

MDX_PATTERNS ==
    << \* /^import\s+.+from\s+['"].+['"];?\s*$/gm
       <<LineStart>> \o Literal(<<"i", "m", "p", "o", "r", "t">>)
         \o <<Plus(Whitespace), Plus(AnyButNewline)>>
         \o Literal(<<"f", "r", "o", "m">>)
         \o <<Plus(Whitespace), One(Quotes), Plus(AnyButNewline), One(Quotes),
              Opt({";"}), Star(Whitespace), LineEnd>>,
       \* /<[A-Z][a-zA-Z]*[^>]*>[\s\S]*?<\/[A-Z][a-zA-Z]*>/g
       <<One({"<"}), One(UpperCase), Star(Letters), Star(TextChars \ {">"}),
         One({">"}), LazyStar(TextChars),
         One({"<"}), One({"/"}), One(UpperCase), Star(Letters), One({">"})>>,
       \* /<[A-Z][a-zA-Z]*[^>]*\/>/g
       <<One({"<"}), One(UpperCase), Star(Letters), Star(TextChars \ {">"}),
         One({"/"}), One({">"})>> >>

\* /\n{3,}/g
NEWLINE_RUN == <<One({NL}), One({NL}), Plus({NL})>>

\* the number of characters of class from position pos of s on, at most
\* many of them
RunLength(s, pos, class, most) ==
    LET last == IF most = Unbounded \/ pos + most > Len(s) + 1
                THEN Len(s) + 1 ELSE pos + most
    IN SetMin({i \in pos..last : i = last \/ s[i] \notin class}) - pos

\* the backtracking match of the atoms k.. of pattern at position pos of s:
\* the position after the match the engine finds first (a greedy atom takes
\* the most characters the rest of the pattern allows, a lazy one the
\* fewest), 0 when there is none
RECURSIVE MatchEnd(_, _, _, _)
MatchEnd(pattern, k, s, pos) ==
    IF k > Len(pattern) THEN pos
    ELSE LET atom == pattern[k]
         IN IF atom.anchor = "^"
            THEN (IF pos = 1 \/ s[pos - 1] = NL
                  THEN MatchEnd(pattern, k + 1, s, pos) ELSE 0)
            ELSE IF atom.anchor = "$"
            THEN (IF pos = Len(s) + 1 \/ s[pos] = NL
                  THEN MatchEnd(pattern, k + 1, s, pos) ELSE 0)
            ELSE LET most == RunLength(s, pos, atom.class, atom.max)
                     tries == {<<c, MatchEnd(pattern, k + 1, s, pos + c)>> :
                                  c \in atom.min..most}
                     found == {t \in tries : t[2] # 0}
                 IN IF found = {} THEN 0
                    ELSE (CHOOSE t \in found : \A u \in found :
                             IF atom.lazy THEN t[1] <= u[1] ELSE t[1] >= u[1])[2]

\* s.replace(pattern, by) for a global pattern that matches no empty string:
\* the leftmost match from pos on is replaced, the search goes on after it
RECURSIVE ReplaceFrom(_, _, _, _)
ReplaceFrom(s, pattern, by, pos) ==
    LET starts == {i \in pos..Len(s) : MatchEnd(pattern, 1, s, i) > i}
    IN IF starts = {} THEN SubSeq(s, pos, Len(s))
       ELSE LET start == SetMin(starts)
            IN SubSeq(s, pos, start - 1) \o by
               \o ReplaceFrom(s, pattern, by, MatchEnd(pattern, 1, s, start))

replace(s, pattern, by) == ReplaceFrom(s, pattern, by, 1)

stripMdx(text) ==
    trim(replace(replace(replace(text, MDX_PATTERNS[1], <<>>),
                         MDX_PATTERNS[2], <<>>),
                 MDX_PATTERNS[3], <<>>))

\* a Date is its whole hours since 1970-01-01T00:00Z; the calendar date of
\* a day number, for the years 0000 to 9999
CivilFromDays(days) ==
    LET z == days + 719468
        era == z \div 146097
        doe == z - era * 146097
        yoe == (doe - doe \div 1460 + doe \div 36524 - doe \div 146096) \div 365
        doy == doe - (365 * yoe + yoe \div 4 - yoe \div 100)
        mp == (5 * doy + 2) \div 153
        month == IF mp < 10 THEN mp + 3 ELSE mp - 9
    IN [year |-> yoe + era * 400 + (IF month <= 2 THEN 1 ELSE 0),
        month |-> month,
        day |-> doy - (153 * mp + 2) \div 5 + 1]

RECURSIVE Padded(_, _)
Padded(n, width) ==
    IF width = 0 THEN <<>> ELSE Padded(n \div 10, width - 1) \o <<Digits[(n % 10) + 1]>>

\* Date.prototype.toISOString
toISOString(date) ==
    LET civil == CivilFromDays(date \div 24)
    IN Padded(civil.year, 4) \o <<"-">> \o Padded(civil.month, 2) \o <<"-">>
       \o Padded(civil.day, 2) \o <<"T">> \o Padded(date % 24, 2)
       \o <<":", "0", "0", ":", "0", "0", ".", "0", "0", "0", "Z">>

\* s.split(sep)[0]
BeforeFirst(s, sep) ==
    LET at == {i \in 1..Len(s) : s[i] = sep}
    IN IF at = {} THEN s ELSE SubSeq(s, 1, SetMin(at) - 1)

formatDate_LocalDate(date) == BeforeFirst(toISOString(date + 1), "T")
formatDate(date) == BeforeFirst(toISOString(date), "T")

\* parts.join(sep)
RECURSIVE join(_, _)
join(parts, sep) ==
    IF parts = <<>> THEN <<>>
    ELSE IF Len(parts) = 1 THEN parts[1]
    ELSE parts[1] \o sep \o join(Tail(parts), sep)

\* the body of the Response doc(...sections) makes of the flattened sections
doc(lines) ==
    trim(replace(join(lines, <<NL>>), NEWLINE_RUN, <<NL, NL>>)) \o <<NL>>

header(name, description) ==
    << <<"#", " ">> \o name, <<>>, <<">", " ">> \o description >>

linkList(title, items, site) ==
    << <<>>, <<"#", "#", " ">> \o title >>
    \o Map(LAMBDA item : <<"-", " ", "[">> \o item.title \o <<"]", "(">> \o site
                         \o item.link \o <<")", ":", " ">> \o item.description,
           items)

postMeta(site, link, pubDate, category) ==
    << <<"U", "R", "L", ":", " ">> \o site \o link,
       <<"P", "u", "b", "l", "i", "s", "h", "e", "d", ":", " ">> \o formatDate(pubDate),
       <<"C", "a", "t", "e", "g", "o", "r", "y", ":", " ">> \o category >>

PostsHeading == <<"P", "o", "s", "t", "s">>
OptionalHeading == <<"O", "p", "t", "i", "o", "n", "a", "l">>
Separator == <<"-", "-", "-">>

\* config.optional?.length
HasOptional(config) == "optional" \in DOMAIN config /\ Len(config.optional) > 0

llmsTxt_OptionalAlways(config) ==
    doc(header(config.name, config.description)
        \o linkList(PostsHeading, config.items, config.site)
        \o linkList(OptionalHeading,
                    IF "optional" \in DOMAIN config THEN config.optional ELSE <<>>,
                    config.site))
llmsTxt(config) ==
    LET sections == header(config.name, config.description)
                    \o linkList(PostsHeading, config.items, config.site)
    IN doc(IF HasOptional(config)
           THEN sections \o linkList(OptionalHeading, config.optional, config.site)
           ELSE sections)

\* items.flatMap(f)
RECURSIVE FlatMap(_, _)
FlatMap(F(_), s) == IF s = <<>> THEN <<>> ELSE F(Head(s)) \o FlatMap(F, Tail(s))

FullSection(site, item) ==
    << <<>>, <<"#", "#", " ">> \o item.title, <<>> >>
    \o postMeta(site, item.link, item.pubDate, item.category)
    \o << <<>>, <<">", " ">> \o item.description, <<>>, stripMdx(item.body),
          <<>>, Separator >>

llmsFullTxt(config) ==
    LET head == header(config.name, config.description)
                \o << <<>>,
                      <<"A", "u", "t", "h", "o", "r", ":", " ">> \o config.author,
                      <<"S", "i", "t", "e", ":", " ">> \o config.site,
                      <<>>, Separator >>
        posts == FlatMap(LAMBDA item : FullSection(config.site, item), config.items)
    IN doc(head \o posts)

llmsPost(config) ==
    LET post == config.post
    IN doc(<< <<"#", " ">> \o post.title, <<>>,
              <<">", " ">> \o post.description, <<>> >>
           \o postMeta(config.site, config.link, post.pubDate, post.category)
           \o << <<>>, stripMdx(BodyOrEmpty(post)) >>)

\* siteConfig, and the posts the documents are made of
SiteName == <<"N">>
SiteDescription == <<"D">>
SiteAuthor == <<"A">>
SiteUrl == <<"s">>

Tutorial == <<"t", "u", "t", "o", "r", "i", "a", "l">>
Opinion == <<"o", "p", "i", "n", "i", "o", "n">>

DocSlugs == {<<"a">>, <<"b">>}
DocTitles == {<<"T">>, <<"U">>}
DocDescriptions == {<<>>, <<"d">>, <<"d", " ">>}
\* 1969-12-31T23, 1970-01-01T00, 1970-02-28T23, 2000-02-29T12, 2024-12-31T23
DocDates == {-1, 0, 1415, 264396, 482135}
DocCategories == {Tutorial, Opinion}

ImportLine ==
    <<"i", "m", "p", "o", "r", "t", " ", "C", " ", "f", "r", "o", "m", " ",
      "'", "c", "'", ";">>
DocBodies ==
    { <<>>,
      <<"w">>,
      ImportLine \o <<NL, NL, "w">>,
      <<"w", NL, NL, "<", "C", " ", "/", ">", NL, NL, "v">>,
      <<"<", "C", ">", "x", "<", "/", "C", ">", "w", " ">>,
      <<"w", NL, NL, NL, NL, "v">> }

DocPosts ==
    [slug : DocSlugs, title : DocTitles, description : DocDescriptions,
     pubDate : DocDates, category : DocCategories]
    \cup [slug : DocSlugs, title : DocTitles, description : DocDescriptions,
          pubDate : DocDates, category : DocCategories, body : DocBodies]

\* the posts the lists are drawn from
ListedDocPosts ==
    { [slug |-> <<"a">>, title |-> <<"T">>, description |-> <<"d">>,
       pubDate |-> 482135, category |-> Tutorial,
       body |-> ImportLine \o <<NL, NL, "w">>],
      [slug |-> <<"b">>, title |-> <<"U">>, description |-> <<>>,
       pubDate |-> -1, category |-> Opinion],
      [slug |-> <<"a">>, title |-> <<"U">>, description |-> <<"d", " ">>,
       pubDate |-> 264396, category |-> Tutorial,
       body |-> <<"w", NL, NL, "<", "C", " ", "/", ">", NL, NL, "v">>],
      [slug |-> <<"b">>, title |-> <<"T">>, description |-> <<"d">>,
       pubDate |-> 1415, category |-> Opinion, body |-> <<>>] }

About ==
    [title |-> <<"A", "b", "o", "u", "t">>, link |-> <<"/", "a", "b", "o", "u", "t">>,
     description |-> <<"m", "e">>]
Feed ==
    [title |-> <<"R", "S", "S">>, link |-> <<"/", "r", "s", "s">>, description |-> <<>>]

SiteConfig == [name |-> SiteName, description |-> SiteDescription, site |-> SiteUrl]

\* llmsTxt is called without optional, or with a list of optional items
LlmsTxtConfigs ==
    {SiteConfig} \cup {SiteConfig @@ [optional |-> o] : o \in {<<>>, <<About>>, <<About, Feed>>}}

\* GET /llms.txt: llmsTxt({..., items: postsToLlmsItems(posts, formatLlmsUrl)})
CallLlmsTxt ==
    /\ ~docDone /\ docCall.fn = "llmsTxt"
    /\ docText' = llmsTxt(docCall.config @@ [items |-> postsToLlmsItems(docItems)])
    /\ docDone' = TRUE
    /\ UNCHANGED <<docCall, docItems>>

\* GET /llms-full.txt: llmsFullTxt({..., items: postsToLlmsFullItems(posts, formatUrl)})
CallLlmsFullTxt ==
    /\ ~docDone /\ docCall.fn = "llmsFullTxt"
    /\ docText' = llmsFullTxt(docCall.config @@ [items |-> postsToLlmsFullItems(docItems)])
    /\ docDone' = TRUE
    /\ UNCHANGED <<docCall, docItems>>

\* GET /llms/[slug].txt: llmsPost({post, site, link: formatUrl(post.slug)})
CallLlmsPost ==
    /\ ~docDone /\ docCall.fn = "llmsPost"
    /\ docText' = llmsPost([post |-> docItems[1], site |-> docCall.config.site,
                            link |-> formatUrl(docItems[1].slug, NoOptions)])
    /\ docDone' = TRUE
    /\ UNCHANGED <<docCall, docItems>>

-----------------------------------------------------------------------------
(* Calls of the pure functions *)

IsPathActive ==
    /\ ~activeDone
    /\ active' = isPathActive(currentPath, targetPath)
    /\ activeDone' = TRUE
    /\ UNCHANGED <<currentPath, targetPath>>

FormatUrl ==
    /\ ~urlDone
    /\ url' = formatUrl(path, options)
    /\ urlDone' = TRUE
    /\ UNCHANGED <<path, options>>

EstimateReadingTime ==
    /\ ~minutesDone
    /\ minutes' = estimateReadingTime(content)
    /\ minutesDone' = TRUE
    /\ UNCHANGED content

\* the author adds a word to the text; the estimate is taken anew
AppendWord(sep) ==
    /\ Len(content) < MaxPrefix + 2 * MaxWords
    /\ Len(content) >= MaxPrefix => sep = " "
    /\ content' = content \o <<sep, "w">>
    /\ minutes' = 0
    /\ minutesDone' = FALSE

-----------------------------------------------------------------------------
(* Specifications *)

AllOptions == UNION {[K -> OptionValues] : K \in SUBSET OptionKeys}

PathActiveIdle ==
    currentPath = <<>> /\ targetPath = <<>> /\ active = FALSE /\ activeDone = FALSE
FormatIdle ==
    path = <<>> /\ options = NoOptions /\ url = <<>> /\ urlDone = FALSE
ReadingIdle ==
    content = <<>> /\ minutes = 0 /\ minutesDone = FALSE
PagesIdle ==
    /\ collection = <<>>
    /\ rssPc = "idle" /\ rssItems = <<>> /\ rssLog = <<>> /\ fetches = <<>>
    /\ llmsItems = <<>> /\ llmsFullItems = <<>> /\ staticPaths = <<>>
    /\ served = {}

BuilderIdle ==
    /\ rb = [base |-> <<>>, segments |-> <<>>]
    /\ rbCall = [op |-> "none", arg |-> <<>>]
    /\ rbError = "none" /\ rbBuilt = <<>>
RoutesIdle ==
    /\ routeCall = [fn |-> "none", arg |-> <<>>]
    /\ routeValue = <<>> /\ routeThrew = FALSE /\ routeDone = FALSE
DocIdle ==
    /\ docCall = [fn |-> "none"]
    /\ docItems = <<>> /\ docText = <<>> /\ docDone = FALSE

\* the site: any collection, no request served yet
Init ==
    /\ collection \in Collections
    /\ rssPc = "idle" /\ rssItems = <<>> /\ rssLog = <<>> /\ fetches = <<>>
    /\ llmsItems = <<>> /\ llmsFullItems = <<>> /\ staticPaths = <<>>
    /\ served = {}
    /\ PathActiveIdle /\ FormatIdle /\ ReadingIdle
    /\ BuilderIdle /\ RoutesIdle /\ DocIdle

Next ==
    \/ (\E site \in BOOLEAN : RssGET(site)) /\ UNCHANGED <<pathActiveVars, formatVars, readingVars, builderVars, routesVars, docVars>>
    \/ RssGETResume /\ UNCHANGED <<pathActiveVars, formatVars, readingVars, builderVars, routesVars, docVars>>
    \/ (\E i \in 1..MaxFetches : FetchResolve(i)) /\ UNCHANGED <<pathActiveVars, formatVars, readingVars, builderVars, routesVars, docVars>>
    \/ (\E i \in 1..MaxFetches : FetchReject(i)) /\ UNCHANGED <<pathActiveVars, formatVars, readingVars, builderVars, routesVars, docVars>>
    \/ LlmsTxtGET /\ UNCHANGED <<pathActiveVars, formatVars, readingVars, builderVars, routesVars, docVars>>
    \/ LlmsFullTxtGET /\ UNCHANGED <<pathActiveVars, formatVars, readingVars, builderVars, routesVars, docVars>>
    \/ getStaticPaths /\ UNCHANGED <<pathActiveVars, formatVars, readingVars, builderVars, routesVars, docVars>>

Spec == Init /\ [][Next]_vars

\* GET /rss.xml alone, with its scheduling: the continuation after
\* await getAllPosts() runs once the posts are there; nothing makes the
\* analytics request ever complete
RssResumeStep == RssGETResume /\ UNCHANGED <<pathActiveVars, formatVars, readingVars, builderVars, routesVars, docVars>>

NextRss ==
    \/ (\E site \in BOOLEAN : RssGET(site)) /\ UNCHANGED <<pathActiveVars, formatVars, readingVars, builderVars, routesVars, docVars>>
    \/ RssResumeStep
    \/ (\E i \in 1..MaxFetches : FetchResolve(i)) /\ UNCHANGED <<pathActiveVars, formatVars, readingVars, builderVars, routesVars, docVars>>
    \/ (\E i \in 1..MaxFetches : FetchReject(i)) /\ UNCHANGED <<pathActiveVars, formatVars, readingVars, builderVars, routesVars, docVars>>

SpecRss == Init /\ [][NextRss]_vars /\ WF_vars(RssResumeStep)

\* isPathActive on every pair of short paths
InitPathActive ==
    /\ currentPath \in Strings(MaxLen)
    /\ targetPath \in Strings(MaxLen)
    /\ active = FALSE /\ activeDone = FALSE
    /\ FormatIdle /\ ReadingIdle /\ PagesIdle
    /\ BuilderIdle /\ RoutesIdle /\ DocIdle

NextPathActive == IsPathActive /\ UNCHANGED <<formatVars, readingVars, pageVars, builderVars, routesVars, docVars>>

SpecPathActive == InitPathActive /\ [][NextPathActive]_vars

\* formatUrl on every short path and every options object
InitFormat ==
    /\ path \in Strings(MaxLen)
    /\ options \in AllOptions
    /\ url = <<>> /\ urlDone = FALSE
    /\ PathActiveIdle /\ ReadingIdle /\ PagesIdle
    /\ BuilderIdle /\ RoutesIdle /\ DocIdle

NextFormat == FormatUrl /\ UNCHANGED <<pathActiveVars, readingVars, pageVars, builderVars, routesVars, docVars>>

SpecFormat == InitFormat /\ [][NextFormat]_vars

\* estimateReadingTime on a text that grows word by word
InitReading ==
    /\ content \in ContentStrings(MaxPrefix)
    /\ minutes = 0 /\ minutesDone = FALSE
    /\ PathActiveIdle /\ FormatIdle /\ PagesIdle
    /\ BuilderIdle /\ RoutesIdle /\ DocIdle

NextReading ==
    \/ EstimateReadingTime /\ UNCHANGED <<pathActiveVars, formatVars, pageVars, builderVars, routesVars, docVars>>
    \/ (\E sep \in Whitespace : AppendWord(sep)) /\ UNCHANGED <<pathActiveVars, formatVars, pageVars, builderVars, routesVars, docVars>>

SpecReading == InitReading /\ [][NextReading]_vars

\* the arguments tried on segment(): empty, plain, only a slash, mixed
SegmentArgs == {<<>>, <<"a">>, <<Slash>>, <<"a", Slash, " ">>, <<"%">>}

\* a RouteBuilder on any base, then any calls of segment and build
InitBuilder ==
    /\ \E base \in {<<>>, Blog, <<Slash>> \o Blog} :
          /\ rb = RouteBuilderNew(base)
          /\ rbCall = [op |-> "new", arg |-> base]
    /\ rbError = "none" /\ rbBuilt = <<>>
    /\ PathActiveIdle /\ FormatIdle /\ ReadingIdle /\ PagesIdle
    /\ RoutesIdle /\ DocIdle

NextBuilder ==
    \/ (\E seg \in SegmentArgs : RbSegment(seg))
          /\ UNCHANGED <<pathActiveVars, formatVars, readingVars, pageVars, routesVars, docVars>>
    \/ (\E ts \in BOOLEAN : RbBuild(ts))
          /\ UNCHANGED <<pathActiveVars, formatVars, readingVars, pageVars, routesVars, docVars>>

SpecBuilder == InitBuilder /\ [][NextBuilder]_vars

\* every BlogRoutes function on every short argument
InitRoutes ==
    /\ \/ routeCall \in [fn : {"post", "category", "tag"}, arg : RouteStrings(MaxSegLen)]
       \/ routeCall = [fn |-> "index", arg |-> <<>>]
    /\ routeValue = <<>> /\ routeThrew = FALSE /\ routeDone = FALSE
    /\ PathActiveIdle /\ FormatIdle /\ ReadingIdle /\ PagesIdle
    /\ BuilderIdle /\ DocIdle

NextRoutes ==
    \/ BlogRoutesPost
          /\ UNCHANGED <<pathActiveVars, formatVars, readingVars, pageVars, builderVars, docVars>>
    \/ BlogRoutesCategory
          /\ UNCHANGED <<pathActiveVars, formatVars, readingVars, pageVars, builderVars, docVars>>
    \/ BlogRoutesTag
          /\ UNCHANGED <<pathActiveVars, formatVars, readingVars, pageVars, builderVars, docVars>>
    \/ BlogRoutesIndex
          /\ UNCHANGED <<pathActiveVars, formatVars, readingVars, pageVars, builderVars, docVars>>

SpecRoutes == InitRoutes /\ [][NextRoutes]_vars

\* one llms document made of any of the posts
InitLlms ==
    /\ \/ /\ docCall \in {[fn |-> "llmsTxt", config |-> c] : c \in LlmsTxtConfigs}
          /\ docItems \in UNION {[1..k -> ListedDocPosts] : k \in 0..MaxItems}
       \/ /\ docCall = [fn |-> "llmsFullTxt",
                        config |-> SiteConfig @@ [author |-> SiteAuthor]]
          /\ docItems \in UNION {[1..k -> ListedDocPosts] : k \in 0..MaxItems}
       \/ /\ docCall = [fn |-> "llmsPost", config |-> SiteConfig]
          /\ docItems \in {<<post>> : post \in DocPosts}
    /\ docText = <<>> /\ docDone = FALSE
    /\ PathActiveIdle /\ FormatIdle /\ ReadingIdle /\ PagesIdle
    /\ BuilderIdle /\ RoutesIdle

NextLlms ==
    \/ CallLlmsTxt /\ UNCHANGED <<pathActiveVars, formatVars, readingVars, pageVars, builderVars, routesVars>>
    \/ CallLlmsFullTxt /\ UNCHANGED <<pathActiveVars, formatVars, readingVars, pageVars, builderVars, routesVars>>
    \/ CallLlmsPost /\ UNCHANGED <<pathActiveVars, formatVars, readingVars, pageVars, builderVars, routesVars>>

SpecLlms == InitLlms /\ [][NextLlms]_vars

-----------------------------------------------------------------------------
(* Properties of isPathActive (SpecPathActive) *)

Root == <<Slash>>

\* C1: with the root as target, isPathActive answers true exactly when the
\* current path is the root itself
C1_RootActiveOnlyOnHomepage ==
    (activeDone /\ targetPath = Root) => (active <=> currentPath = Root)

C1_Witness ==
    activeDone /\ targetPath = Root /\ currentPath = <<"/", "a">> /\ ~active

\* C2: for a target other than the root, an active answer means that the
\* normalised current path is the normalised target or continues it with a
\* "/" (a nested route); sharing a prefix inside a segment is not enough
C2_ActiveOnlyAtSegmentBoundary ==
    (activeDone /\ targetPath # Root /\ active) =>
        LET c == removeTrailingSlash(currentPath)
            t == removeTrailingSlash(targetPath)
        IN c = t \/ startsWith(c, t \o <<Slash>>)

\* a route other than the root: /seg or /seg/seg..., possibly closed by one "/"
IsRoute(p) ==
    /\ Len(p) >= 2
    /\ p[1] = Slash
    /\ \A i \in 1..(Len(p) - 1) : ~(p[i] = Slash /\ p[i + 1] = Slash)

\* the same route with its closing "/" added or removed
ToggleTrailingSlash(p) ==
    IF endsWith(p, Slash) THEN SubSeq(p, 1, Len(p) - 1) ELSE p \o <<Slash>>

\* C3: on routes other than the root, equal arguments are active, and the
\* answer is the same when the closing "/" of either argument is added or
\* removed
C3_TrailingSlashIrrelevant ==
    (activeDone /\ IsRoute(currentPath) /\ IsRoute(targetPath)) =>
        /\ currentPath = targetPath => active
        /\ active = isPathActive(ToggleTrailingSlash(currentPath), targetPath)
        /\ active = isPathActive(currentPath, ToggleTrailingSlash(targetPath))
        /\ active = isPathActive(ToggleTrailingSlash(currentPath),
                                 ToggleTrailingSlash(targetPath))

C3_Witness ==
    /\ activeDone /\ active
    /\ currentPath = <<"/", "a", "/">>
    /\ targetPath = <<"/", "a">>

-----------------------------------------------------------------------------
(* Properties of formatUrl (SpecFormat) *)

OneSlashAtEachEnd(u) ==
    /\ Len(u) >= 1
    /\ u[1] = Slash /\ (Len(u) >= 2 => u[2] # Slash)
    /\ u[Len(u)] = Slash /\ (Len(u) >= 2 => u[Len(u) - 1] # Slash)

\* C4: called without options, formatUrl returns for every input a path
\* that begins with exactly one "/" and ends with exactly one "/"
C4_DefaultHasOneSlashAtEachEnd ==
    (urlDone /\ options = NoOptions) => OneSlashAtEachEnd(url)

\* the part of p between its leading and its trailing run of "/"
Core(p) ==
    LET solid == {i \in 1..Len(p) : p[i] # Slash}
    IN IF solid = {} THEN <<>> ELSE SubSeq(p, SetMin(solid), SetMax(solid))

\* an option given as a boolean counts as given, an omitted one as true
OptionOn(o, k) == IF k \in DOMAIN o THEN o[k] = "true" ELSE TRUE

BooleanOptions(o) == \A k \in DOMAIN o : o[k] \in {"true", "false"}

-----------------------------------------------------------------------------
(* Properties of the post query and of the endpoints (Spec) *)

Count(x, s) == Cardinality({i \in 1..Len(s) : s[i] = x})

IsPermutation(s, t) ==
    /\ Len(s) = Len(t)
    /\ \A i \in 1..Len(t) : Count(t[i], s) = Count(t[i], t)

\* the posts getAllPosts handed to getStaticPaths
ListedPosts == [i \in 1..Len(staticPaths) |-> staticPaths[i].props.post]

DraftSlugs == {collection[i].slug : i \in {j \in 1..Len(collection) : collection[j].draft}}

\* C7: no draft is in the result of getAllPosts, so none is an RSS item, an
\* llms.txt link, an llms-full.txt section or a static path of /llms/<slug>.txt
C7_NoDraftPublished ==
    /\ "staticPaths" \in served =>
          \A i \in 1..Len(staticPaths) :
              /\ ~staticPaths[i].props.post.draft
              /\ staticPaths[i].params.slug \notin DraftSlugs
    /\ "rss" \in served =>
          \A i \in 1..Len(rssItems) : \A d \in DraftSlugs :
              rssItems[i].link # <<Slash>> \o d \o <<Slash>>
    /\ "llms" \in served =>
          \A i \in 1..Len(llmsItems) : \A d \in DraftSlugs :
              llmsItems[i].link # formatLlmsUrl(d)
    /\ "llmsFull" \in served =>
          \A i \in 1..Len(llmsFullItems) : \A d \in DraftSlugs :
              llmsFullItems[i].link # <<Slash>> \o d \o <<Slash>>

\* C8: the RSS feed, llms.txt and llms-full.txt hold one entry for each
\* post of getAllPosts, in that order, newest publication date first
C8_SameOrderEverywhere ==
    {"rss", "llms", "llmsFull"} \subseteq served =>
        LET posts == getAllPosts(collection)
            n == Len(posts)
        IN /\ Len(rssItems) = n /\ Len(llmsItems) = n /\ Len(llmsFullItems) = n
           /\ \A i \in 1..n :
                 /\ rssItems[i].link = <<Slash>> \o posts[i].slug \o <<Slash>>
                 /\ rssItems[i].pubDate = posts[i].pubDate
                 /\ llmsItems[i].link = formatLlmsUrl(posts[i].slug)
                 /\ llmsFullItems[i].link = rssItems[i].link
                 /\ llmsFullItems[i].pubDate = posts[i].pubDate
           /\ \A i, j \in 1..n : i < j => rssItems[i].pubDate >= rssItems[j].pubDate

C8_Witness ==
    /\ {"rss", "llms", "llmsFull"} \subseteq served
    /\ Len(rssItems) = 3
    /\ rssItems[1].pubDate > rssItems[3].pubDate
    /\ collection[1].pubDate < collection[3].pubDate

-----------------------------------------------------------------------------
(* Properties of estimateReadingTime (SpecReading) *)

\* the words of a text: its maximal runs of non-whitespace characters
Words(c) ==
    Cardinality({i \in 1..Len(c) :
                    c[i] \notin Whitespace /\ (i = 1 \/ c[i - 1] \in Whitespace)})

C10_EmptyContentIsZero ==
    (minutesDone /\ Words(content) = 0) => minutes = 0

-----------------------------------------------------------------------------
(* Properties of GET /rss.xml and of the analytics call (Spec) *)

\* C11: tracking is fire-and-forget: once the tracking call is made the
\* handler reaches its response whether the analytics request completes,
\* fails or stays pending for ever, a failed request ends in the .catch
\* handler and never as a rejection left to the caller, and the handler
\* throws only on its own site check
C11_FireAndForget ==
    /\ [](\A i \in 1..Len(fetches) : fetches[i].state \in {"pending", "ok", "caught"})
    /\ [](rssPc = "threw" => rssLog = <<>>)
    /\ (rssPc = "awaitPosts") ~> (rssPc = "done")

C11_Witness ==
    /\ rssPc = "done" /\ "rss" \in served
    /\ Len(fetches) = 2
    /\ fetches[1].state = "caught"
    /\ fetches[2].state = "pending"

\* C16: a request without site throws before any tracking call and before
\* the posts are read; a request with site makes exactly one "rss-fetch"
\* tracking call, and makes it before the posts are read
C16_SiteCheckedBeforeTracking ==
    /\ [](/\ rssPc = "threw" => rssLog = <<>>
          /\ rssPc = "awaitPosts" => rssLog = <<"track">>
          /\ rssPc = "done" => rssLog = <<"track", "read">>)
    /\ [][(rssPc' # rssPc \/ rssLog' # rssLog) =>
            /\ rssPc' = "threw" => (fetches' = fetches /\ rssItems' = rssItems)
            /\ rssPc' = "awaitPosts" =>
                  (/\ fetches' = Append(fetches, [name |-> "rss-fetch", state |-> "pending"])
                   /\ rssItems' = rssItems)
            /\ rssPc' = "done" => fetches' = fetches]_vars

C16_Witness ==
    /\ rssPc = "threw"
    /\ "rss" \in served
    /\ Len(fetches) = 1

-----------------------------------------------------------------------------
(* Properties of BlogRoutes (SpecRoutes) and RouteBuilder (SpecBuilder) *)

BlogPrefix == <<Slash>> \o Blog \o <<Slash>>

\* C15 as stated: post(slug) is "/blog/" + encodeURIComponent(slug) + "/"
\* for every non-empty slug, category(c) is "/blog/category/<c>/", tag(t)
\* is "/blog/tag/<t>/" (<c>, <t> read as given or as encoded) and index()
\* is "/blog/"
C15_RoutesEncodeWholeArgument ==
    routeDone =>
        LET arg == routeCall.arg
            given == arg \o <<Slash>>
            encoded == encodeURIComponent(arg) \o <<Slash>>
        IN /\ (routeCall.fn = "post" /\ arg # <<>>) =>
                (~routeThrew /\ routeValue = BlogPrefix \o encoded)
           /\ (routeCall.fn = "category" /\ arg # <<>>) =>
                (/\ ~routeThrew
                 /\ routeValue \in {BlogPrefix \o Category \o <<Slash>> \o given,
                                    BlogPrefix \o Category \o <<Slash>> \o encoded})
           /\ (routeCall.fn = "tag" /\ arg # <<>>) =>
                (/\ ~routeThrew
                 /\ routeValue \in {BlogPrefix \o Tag \o <<Slash>> \o given,
                                    BlogPrefix \o Tag \o <<Slash>> \o encoded})
           /\ routeCall.fn = "index" => (~routeThrew /\ routeValue = BlogPrefix)

SlashFree(s) == SelectSeq(s, LAMBDA c : c # Slash)

\* C15, amended: for a non-empty argument, with s the argument without its
\* "/" characters, post is "/blog/" + encodeURIComponent(s) + "/", category
\* is "/blog/category/" + encodeURIComponent(s) + "/" and tag is
\* "/blog/tag/" + encodeURIComponent(s) + "/" when s is not empty, and
\* "/blog/", "/blog/category/", "/blog/tag/" when it is; an empty argument
\* throws; index() is "/blog/"
C15_RoutesEncodeSlashFreeArgument ==
    routeDone =>
        LET s == SlashFree(routeCall.arg)
            tail == IF s = <<>> THEN <<>> ELSE encodeURIComponent(s) \o <<Slash>>
            called(fn) == routeCall.fn = fn /\ routeCall.arg # <<>>
        IN /\ called("post") =>
                (~routeThrew /\ routeValue = BlogPrefix \o tail)
           /\ called("category") =>
                (~routeThrew /\ routeValue = BlogPrefix \o Category \o <<Slash>> \o tail)
           /\ called("tag") =>
                (~routeThrew /\ routeValue = BlogPrefix \o Tag \o <<Slash>> \o tail)
           /\ (routeCall.fn # "index" /\ routeCall.arg = <<>>) => routeThrew
           /\ routeCall.fn = "index" => (~routeThrew /\ routeValue = BlogPrefix)

C15_Witness ==
    /\ routeDone /\ ~routeThrew
    /\ routeCall = [fn |-> "post", arg |-> <<"a", Slash, " ">>]
    /\ routeValue = BlogPrefix \o <<"a", "%", "2", "0", Slash>>

\* C17: segment("") throws "Segment cannot be empty" (and no other call of
\* segment throws), and the failed call leaves the builder as it was:
\* build() returns after it what it returned before it
C17_EmptySegmentLeavesBuilder ==
    /\ [](rbCall.op = "segment" =>
            (rbError = ErrEmptySegment <=> rbCall.arg = <<>>))
    /\ [][(rbCall'.op = "segment" /\ rbCall'.arg = <<>>) =>
            /\ rb'.segments = rb.segments
            /\ rb'.base = rb.base
            /\ RouteBuild(rb', TRUE) = RouteBuild(rb, TRUE)
            /\ RouteBuild(rb', FALSE) = RouteBuild(rb, FALSE)]_vars

C17_Witness ==
    /\ rbCall = [op |-> "segment", arg |-> <<>>]
    /\ rbError = ErrEmptySegment
    /\ rb.segments = << <<"a", "%", "2", "0">> >>
    /\ rbBuilt = BlogPrefix \o <<"a", "%", "2", "0", Slash>>

-----------------------------------------------------------------------------
(* Properties of the llms documents (SpecLlms) *)

\* the lines of a text: what stands between its line feeds
Lines(text) ==
    LET breaks == {0, Len(text) + 1} \cup {i \in 1..Len(text) : text[i] = NL}
        break(k) == CHOOSE b \in breaks : Cardinality({c \in breaks : c < b}) = k
    IN [k \in 1..(Cardinality(breaks) - 1) |->
           SubSeq(text, break(k - 1) + 1, break(k) - 1)]

NonBlank(lines) == SelectSeq(lines, LAMBDA line : line # <<>>)

WithoutTrailingSpace(line) ==
    LET solid == {i \in 1..Len(line) : line[i] \notin Whitespace}
    IN IF solid = {} THEN <<>> ELSE SubSeq(line, 1, SetMax(solid))

LastWithoutTrailingSpace(lines) ==
    [k \in 1..Len(lines) |->
        IF k = Len(lines) THEN WithoutTrailingSpace(lines[k]) ELSE lines[k]]

Heading(title) == <<"#", "#", " ">> \o title
Quoted(text) == <<">", " ">> \o text

ItemLine(site, item) ==
    <<"-", " ", "[">> \o item.title \o <<"]", "(">> \o site \o item.link
    \o <<")", ":", " ">> \o item.description

\* the item of llms.txt for a post
ListedItem(post) ==
    [title |-> post.title, description |-> post.description,
     link |-> formatLlmsUrl(post.slug)]

OptionalItems == IF "optional" \in DOMAIN docCall.config THEN docCall.config.optional ELSE <<>>

\* the lines llms.txt is to have after its header, blank lines aside
ListLines ==
    <<Heading(PostsHeading)>>
    \o [i \in 1..Len(docItems) |-> ItemLine(SiteUrl, ListedItem(docItems[i]))]
    \o (IF OptionalItems = <<>> THEN <<>>
        ELSE <<Heading(OptionalHeading)>>
             \o [i \in 1..Len(OptionalItems) |-> ItemLine(SiteUrl, OptionalItems[i])])

HeaderLines == << <<"#", " ">> \o SiteName, <<>>, Quoted(SiteDescription) >>

\* C12 as stated: llms.txt is the header "# name", blank line,
\* "> description", then "## Posts" with exactly one line
\* "- [title](site+link): description" per item in input order, then
\* "## Optional" with the optional items iff there are any
C12_OneLinePerItem ==
    (docDone /\ docCall.fn = "llmsTxt") =>
        LET lines == Lines(docText)
        IN /\ Len(lines) >= 3
           /\ SubSeq(lines, 1, 3) = HeaderLines
           /\ NonBlank(SubSeq(lines, 4, Len(lines))) = ListLines

\* C12, amended: the same, except that the last line of the document has
\* lost its trailing whitespace (a last item with an empty description
\* ends in "):")
C12_OneLinePerItemLastTrimmed ==
    (docDone /\ docCall.fn = "llmsTxt") =>
        LET lines == Lines(docText)
        IN /\ Len(lines) >= 3
           /\ SubSeq(lines, 1, 3) = HeaderLines
           /\ NonBlank(SubSeq(lines, 4, Len(lines))) = LastWithoutTrailingSpace(ListLines)

C12_Witness ==
    /\ docDone /\ docCall.fn = "llmsTxt"
    /\ "optional" \notin DOMAIN docCall.config
    /\ Len(docItems) = 2
    /\ docItems[1].title # docItems[2].title
    /\ docItems[2].description = <<>>
    /\ SubSeq(docText, Len(docText) - 2, Len(docText)) = <<")", ":", NL>>

\* the calendar: days from 1970-01-01 to a date, counted year by year
IsLeapYear(y) == (y % 4 = 0 /\ y % 100 # 0) \/ y % 400 = 0
LeapYearsBefore(y) == (y - 1) \div 4 - (y - 1) \div 100 + (y - 1) \div 400
DaysInMonth(y, m) ==
    IF m = 2 THEN (IF IsLeapYear(y) THEN 29 ELSE 28)
    ELSE IF m \in {4, 6, 9, 11} THEN 30 ELSE 31
DaysBeforeMonth(y, m) ==
    <<0, 31, 59, 90, 120, 151, 181, 212, 243, 273, 304, 334>>[m]
    + (IF m > 2 /\ IsLeapYear(y) THEN 1 ELSE 0)
DayNumber(y, m, d) ==
    365 * (y - 1970) + LeapYearsBefore(y) - LeapYearsBefore(1970)
    + DaysBeforeMonth(y, m) + d - 1

\* text is the YYYY-MM-DD of the UTC day the instant date (in hours) lies in
IsUtcDateOf(text, date) ==
    LET value(i) == CHOOSE n \in 0..9 : Digits[n + 1] = text[i]
        y == 1000 * value(1) + 100 * value(2) + 10 * value(3) + value(4)
        m == 10 * value(6) + value(7)
        d == 10 * value(9) + value(10)
    IN /\ Len(text) = 10
       /\ \A i \in {1, 2, 3, 4, 6, 7, 9, 10} : \E n \in 1..10 : Digits[n] = text[i]
       /\ text[5] = "-" /\ text[8] = "-"
       /\ m \in 1..12 /\ d \in 1..DaysInMonth(y, m)
       /\ 24 * DayNumber(y, m, d) <= date /\ date < 24 * (DayNumber(y, m, d) + 1)

\* the lines the section of a post is to have, blank lines aside
SectionLines(post) ==
    << Heading(post.title),
       <<"U", "R", "L", ":", " ">> \o SiteUrl \o <<Slash>> \o post.slug \o <<Slash>>,
       <<"P", "u", "b", "l", "i", "s", "h", "e", "d", ":", " ">> \o formatDate(post.pubDate),
       <<"C", "a", "t", "e", "g", "o", "r", "y", ":", " ">> \o post.category,
       Quoted(post.description) >>
    \o NonBlank(Lines(stripMdx(IF "body" \in DOMAIN post THEN post.body ELSE <<>>)))
    \o <<Separator>>

DocumentWithoutBody(post) ==
    <<"#", " ">> \o post.title \o <<NL, NL>> \o Quoted(post.description) \o <<NL, NL>>
    \o <<"U", "R", "L", ":", " ">> \o SiteUrl \o <<Slash>> \o post.slug \o <<Slash, NL>>
    \o <<"P", "u", "b", "l", "i", "s", "h", "e", "d", ":", " ">> \o formatDate(post.pubDate)
    \o <<NL>> \o <<"C", "a", "t", "e", "g", "o", "r", "y", ":", " ">> \o post.category
    \o <<NL>>

\* C14: for a post without a body llmsPost returns the document of title,
\* description and the URL, Published and Category lines with an empty
\* body, the very document it returns for the body ""; and
\* postsToLlmsFullItems gives such a post the body ""
C14_MissingBodyIsEmptyBody ==
    /\ (docDone /\ docCall.fn = "llmsPost" /\ "body" \notin DOMAIN docItems[1]) =>
          /\ docText = DocumentWithoutBody(docItems[1])
          /\ docText = llmsPost([post |-> docItems[1] @@ [body |-> <<>>],
                                 site |-> docCall.config.site,
                                 link |-> formatUrl(docItems[1].slug, NoOptions)])
    /\ \A i \in 1..Len(docItems) :
          "body" \notin DOMAIN docItems[i] =>
              postsToLlmsFullItems(docItems)[i].body = <<>>

C14_Witness ==
    /\ docDone /\ docCall.fn = "llmsPost"
    /\ "body" \notin DOMAIN docItems[1]
    /\ docItems[1].description = <<>>
    /\ docText = DocumentWithoutBody(docItems[1])

=============================================================================
